---- MODULE Spec2Model ----
(***************************************************************************)
(* The object registry (ObjectManager) of the physics sandbox, with the    *)
(* parts of the Simulation Host (PhysicsEngine, over a CANNON world) and   *)
(* of the Scene Host (PhysicsRenderer, over a THREE scene) it drives.      *)
(*                                                                         *)
(* JavaScript objects are modelled by handles: a THREE.Object3D and a      *)
(* CANNON.Body are integers in their order of construction, and the heaps  *)
(* meshes and bodies hold the fields of every handle constructed so far.   *)
(* Lengths are in hundredths (a size of 2 is 200), so that size / 2,       *)
(* size / 4 and the cone's top radius 0.01 are integers; quaternion        *)
(* components are in ten-thousandths.  Positions are in whole units.       *)
(***************************************************************************)
EXTENDS Integers, Sequences, FiniteSets, TLC

VARIABLES
    objects,        \* ObjectManager.objects: the tracked objects, in insertion order
    objectId,       \* ObjectManager.objectId: the next id
    refs,           \* every object createObject has returned, in order (the callers' references)
    sceneChildren,  \* renderer.scene.children: Object3D handles
    worldBodies,    \* physicsEngine.world.bodies: body handles
    meshes,         \* heap: mesh handle -> fields of the THREE.Mesh
    bodies,         \* heap: body handle -> fields of the CANNON.Body
    settings,       \* PhysicsEngine.settings
    worldGravity,   \* physicsEngine.world.gravity
    contactMaterial,\* physicsEngine.contactMaterial
    enginePaused,   \* PhysicsEngine.isPaused
    isPaused,       \* the driver's isPaused
    lastCall,       \* the last operation called, its argument and what it returned
    sliders,        \* the values of the gravityY, restitution and friction range inputs
    inited,         \* init has run: physicsEngine, renderer and objectManager are defined
    initTimers,     \* the pending setTimeout(init, 500) of the start button
    spawnTimers,    \* the kinds of the pending timeouts of spawnInitialObjects, in order
    hidden,         \* document.hidden
    animationId,    \* the driver's animationId, 0 while undefined
    pendingFrames,  \* the ids of the pending requestAnimationFrame callbacks
    rafCount,       \* the requestAnimationFrame ids handed out so far
    running,        \* the callbacks the browser has still to run in the current display tick
    pc,             \* where the running animate call is: "idle" when none runs
    cont,           \* who called the running animate: "init", "visible" or "tick"
    frameLog,       \* what the running, or the last, animate call has done, in order
    now,            \* performance.now()
    lastTime,       \* the driver's lastTime
    deltaTime       \* the deltaTime the last animate call computed

loopVars == <<inited, initTimers, spawnTimers, hidden, animationId, pendingFrames,
              rafCount, running, pc, cont, frameLog, now, lastTime, deltaTime>>

vars == <<objects, objectId, refs, sceneChildren, worldBodies, meshes, bodies,
          settings, worldGravity, contactMaterial, enginePaused, isPaused, lastCall,
          sliders, loopVars>>

(***************************************************************************)
(* Bounds of the model.                                                    *)
(***************************************************************************)
\* createObject succeeds at most MaxSpawns times in a behaviour.
MaxSpawns == 2
\* dispose() is called at most MaxDispose times on one geometry.
MaxDispose == 2
\* The frames requested in a run: requestAnimationFrame is called at most
\* MaxFrames times.
MaxFrames == 4
\* The start button is clicked at most MaxClicks times.
MaxClicks == 2
\* The clock performance.now() advances at most MaxTime times.
MaxTime == 2

(***************************************************************************)
(* Constants of the program.                                               *)
(***************************************************************************)
Kinds == {"box", "sphere", "cylinder", "cone", "torus"}
\* Kinds outside the closed set; the switch compares strings exactly.
BadKinds == {"Box", "pyramid"}
\* The kinds spawned where the world steps (SpecSync).
SyncKinds == {"box", "torus"}
DefaultSize == 200
DefaultMass == 5
DefaultGravityY == -98
DefaultRestitution == 30
DefaultFriction == 30
\* The scene's own children: three lights, the grid, the ground, the axes.
SceneStatics == 6
\* The handle of the static ground body, the first body of the world.
GroundBody == 1

Origin == <<0, 0, 0>>
IdentityQuat == <<0, 0, 0, 10000>>
GroundQuat == <<-7071, 0, 0, 7071>>
\* Where the model's callers spawn, and where a world step may take a body.
SpawnPositions == {<<0, 10, 0>>}
SteppedPosition == <<0, 8, 0>>
SteppedQuat == <<10000, 0, 0, 0>>
\* The values the range inputs are dragged to: gravity y in tenths,
\* restitution and friction in hundredths.
GravityValues == {-98, 0, 50}
RestitutionValues == {30, 90}
FrictionValues == {30, 0}
\* The draws of spawnRandom: x and z in (-5, 5), y in [10, 15), size in [1.5, 3).
RandomPositions == {<<3, 12, -2>>}
RandomSizes == {152, 296}
\* The anchors clicked on the ground plane, and the draws of spawnAtPosition's
\* size, in [1.5, 2).
AnchorPositions == {<<0, 0, 0>>, <<4, 0, -3>>}
AnchorSizes == {196}

\* what createObject returns for a kind it does not know
Null == [null |-> TRUE]
NoKind == ""

(***************************************************************************)
(* ObjectManager: the colour palette and the mesh creators.                *)
(***************************************************************************)
colors ==
    [k \in Kinds |->
        CASE k = "box" -> 65416         \* 0x00ff88
          [] k = "sphere" -> 54527      \* 0x00d4ff
          [] k = "cylinder" -> 11684851 \* 0xb24bf3
          [] k = "cone" -> 16739179     \* 0xff6b6b
          [] k = "torus" -> 16767293]   \* 0xffd93d

\* new THREE.Mesh(geometry, material): at the origin, not rotated.
\* geometryDisposed and materialDisposed count the calls of dispose() on the
\* mesh's geometry and material.
NewMesh(geometry, color) ==
    [position |-> Origin, quaternion |-> IdentityQuat,
     geometry |-> geometry, color |-> color,
     geometryDisposed |-> 0, materialDisposed |-> 0]

createBox(size, color) ==
    NewMesh([class |-> "BoxGeometry", width |-> size, height |-> size, depth |-> size], color)

createSphere(radius, color) ==
    NewMesh([class |-> "SphereGeometry", radius |-> radius], color)

createCylinder(radius, height, color) ==
    NewMesh([class |-> "CylinderGeometry", radiusTop |-> radius,
             radiusBottom |-> radius, height |-> height], color)

createCone(radius, height, color) ==
    NewMesh([class |-> "ConeGeometry", radius |-> radius, height |-> height], color)

createTorus(radius, tube, color) ==
    NewMesh([class |-> "TorusGeometry", radius |-> radius, tube |-> tube], color)

(***************************************************************************)
(* PhysicsEngine.createBody: the CANNON shape of a shape description, and  *)
(* the body made of it.                                                    *)
(***************************************************************************)
cannonShape(shape) ==
    CASE shape.type = "box" ->
            [class |-> "Box", halfExtents |-> <<shape.size \div 2, shape.size \div 2, shape.size \div 2>>]
      [] shape.type = "sphere" ->
            [class |-> "Sphere", radius |-> shape.radius]
      [] shape.type = "cylinder" ->
            [class |-> "Cylinder", radiusTop |-> shape.radiusTop,
             radiusBottom |-> shape.radiusBottom, height |-> shape.height,
             segments |-> shape.segments]
      [] shape.type = "cone" ->
            [class |-> "Cylinder", radiusTop |-> 1,
             radiusBottom |-> shape.radius, height |-> shape.height,
             segments |-> shape.segments]
      [] OTHER ->
            [class |-> "Sphere", radius |-> 100]

createBody(shape, mass, position) ==
    [mass |-> mass, position |-> position, quaternion |-> IdentityQuat,
     shape |-> cannonShape(shape)]

\* The mesh and the shape description createObject builds for a supported kind.
MeshOf(type, size) ==
    CASE type = "box" -> createBox(size, colors[type])
      [] type = "sphere" -> createSphere(size \div 2, colors[type])
      [] type = "cylinder" -> createCylinder(size \div 2, size, colors[type])
      [] type = "cone" -> createCone(size \div 2, size, colors[type])
      [] type = "torus" -> createTorus(size \div 2, size \div 4, colors[type])

ShapeOf(type, size) ==
    CASE type = "box" -> [type |-> "box", size |-> size]
      [] type = "sphere" -> [type |-> "sphere", radius |-> size \div 2]
      [] type = "cylinder" ->
            [type |-> "cylinder", radiusTop |-> size \div 2,
             radiusBottom |-> size \div 2, height |-> size, segments |-> 8]
      [] type = "cone" ->
            [type |-> "cone", radius |-> size \div 2, height |-> size, segments |-> 8]
      [] type = "torus" -> [type |-> "sphere", radius |-> size \div 2]

(***************************************************************************)
(* Array helpers: indexOf and splice(index, 1).                            *)
(***************************************************************************)
indexOf(seq, x) ==
    IF \E i \in 1..Len(seq) : seq[i] = x
    THEN CHOOSE i \in 1..Len(seq) : seq[i] = x /\ \A j \in 1..(i - 1) : seq[j] # x
    ELSE -1

\* splice(index) without its deleteCount: everything from index on is deleted
spliceToEnd(seq, i) == SubSeq(seq, 1, i - 1)

splice(seq, i) == SubSeq(seq, 1, i - 1) \o SubSeq(seq, i + 1, Len(seq))

\* remove the first occurrence of x, when there is one (scene.remove, world.removeBody)
removeFrom(seq, x) == IF indexOf(seq, x) > -1 THEN splice(seq, indexOf(seq, x)) ELSE seq

Range(seq) == {seq[i] : i \in 1..Len(seq)}

(***************************************************************************)
(* The state the registry's operations act on, as one record, so that      *)
(* clearAll can call removeObject once per entry of its snapshot.          *)
(***************************************************************************)
State ==
    [objects |-> objects, objectId |-> objectId,
     sceneChildren |-> sceneChildren, worldBodies |-> worldBodies,
     meshes |-> meshes, bodies |-> bodies]

\* one mesh kept and handed out again
sharedMeshHandle(S) == SceneStatics + 1

\* Handles are given in order of construction.
nextMeshHandle(S) == SceneStatics + Cardinality(DOMAIN S.meshes) + 1
nextBodyHandle(S) == Cardinality(DOMAIN S.bodies) + 1

\* Array.prototype.unshift in the place of push
unshift(seq, x) == <<x>> \o seq

\* Array.prototype.push
push(seq, x) == Append(seq, x)

\* a removeBody that forgets the world
removeBodyNowhere(S, body) == S

\* PhysicsEngine.removeBody: world.removeBody(body), which leaves the world
\* as it is when the body is not in it.
removeBody(S, body) == [S EXCEPT !.worldBodies = removeFrom(@, body)]

\* PhysicsEngine.clearAllBodies: collect the bodies of mass > 0, remove each.
RECURSIVE removeBodies(_, _)
removeBodies(S, bodiesToRemove) ==
    IF bodiesToRemove = <<>> THEN S
    ELSE removeBodies([S EXCEPT !.worldBodies = removeFrom(@, Head(bodiesToRemove))],
                      Tail(bodiesToRemove))

\* a clearAllBodies that collects the static bodies too
clearAllBodiesStaticToo(S) ==
    removeBodies(S, SelectSeq(S.worldBodies, LAMBDA b : S.bodies[b].mass >= 0))

clearAllBodies(S) ==
    removeBodies(S, SelectSeq(S.worldBodies, LAMBDA b : S.bodies[b].mass > 0))

\* ObjectManager.createObject for a kind of the switch: the mesh, the body,
\* scene.add, the object record and its push.
createTracked(S, type, position, size) ==
    LET m == nextMeshHandle(S)
        b == nextBodyHandle(S)
        mesh == MeshOf(type, size)
        body == createBody(ShapeOf(type, size), settings.defaultMass, position)
        obj == [id |-> S.objectId, type |-> type, mesh |-> m, body |-> b]
    IN [state |->
           [S EXCEPT !.meshes = @ @@ (m :> mesh),
                     !.bodies = @ @@ (b :> body),
                     !.worldBodies = push(@, b),
                     !.sceneChildren = push(@, m),
                     !.objectId = @ + 1,
                     !.objects = push(@, obj)],
        ret |-> obj]

\* a switch whose default case builds a box instead of returning null
createObjectDefaultBox(S, type, position, size) ==
    createTracked(S, IF type \in Kinds THEN type ELSE "box", position, size)

\* ObjectManager.createObject: the state after the call and what it returns.
createObject(S, type, position, size) ==
    IF type \notin Kinds
    THEN [state |-> S, ret |-> Null]
    ELSE createTracked(S, type, position, size)

\* removeObject without the index > -1 test: splice(-1, 1) drops the last entry
removeObjectUnguarded(S, obj) ==
    LET detached == [S EXCEPT !.sceneChildren = removeFrom(@, obj.mesh)]
        disposed == [detached EXCEPT
                        !.meshes[obj.mesh].geometryDisposed = @ + 1,
                        !.meshes[obj.mesh].materialDisposed = @ + 1]
        unbodied == [disposed EXCEPT !.worldBodies = removeFrom(@, obj.body)]
        index == indexOf(unbodied.objects, obj)
    IN IF index > -1
       THEN [unbodied EXCEPT !.objects = splice(@, index)]
       ELSE [unbodied EXCEPT !.objects = SubSeq(@, 1, Len(@) - 1)]

\* ObjectManager.removeObject
removeObject(S, obj) ==
    LET detached == [S EXCEPT !.sceneChildren = removeFrom(@, obj.mesh)]
        disposed == [detached EXCEPT
                        !.meshes[obj.mesh].geometryDisposed = @ + 1,
                        !.meshes[obj.mesh].materialDisposed = @ + 1]
        unbodied == removeBody(disposed, obj.body)
        index == indexOf(unbodied.objects, obj)
    IN IF index > -1
       THEN [unbodied EXCEPT !.objects = splice(@, index)]
       ELSE unbodied

\* a forEach that hands each entry of the copy to removeObject twice
RECURSIVE removeEachTwice(_, _)
removeEachTwice(S, snapshot) ==
    IF snapshot = <<>> THEN S
    ELSE removeEachTwice(removeObject(removeObject(S, Head(snapshot)), Head(snapshot)),
                         Tail(snapshot))

\* ObjectManager.clearAll: removeObject over a copy of the array, then the
\* engine's clearAllBodies.
RECURSIVE removeEach(_, _)
removeEach(S, snapshot) ==
    IF snapshot = <<>> THEN S
    ELSE removeEach(removeObject(S, Head(snapshot)), Tail(snapshot))

\* forEach over the array itself: removeObject splices it under the iteration,
\* and the entry that slides into the place just visited is skipped
RECURSIVE removeEachLive(_, _)
removeEachLive(S, i) ==
    IF i > Len(S.objects) THEN S
    ELSE removeEachLive(removeObject(S, S.objects[i]), i + 1)

clearAllLive(S) == clearAllBodies(removeEachLive(S, 1))

\* a clearAll that also restarts the id counter
clearAllRestartIds(S) == [clearAllBodies(removeEach(S, S.objects)) EXCEPT !.objectId = 0]

clearAll(S) == clearAllBodies(removeEach(S, S.objects))

\* ObjectManager.update: copy each body's position and quaternion to its mesh.
RECURSIVE syncEach(_, _)
syncEach(S, objs) ==
    IF objs = <<>> THEN S
    ELSE LET obj == Head(objs)
         IN syncEach([S EXCEPT !.meshes[obj.mesh].position = S.bodies[obj.body].position,
                               !.meshes[obj.mesh].quaternion = S.bodies[obj.body].quaternion],
                     Tail(objs))

\* an update that copies the position and forgets the quaternion
updatePositionOnly(S) ==
    [S EXCEPT !.meshes =
        [h \in DOMAIN S.meshes |->
            IF \E i \in 1..Len(S.objects) : S.objects[i].mesh = h
            THEN LET o == S.objects[CHOOSE i \in 1..Len(S.objects) : S.objects[i].mesh = h]
                 IN [S.meshes[h] EXCEPT !.position = S.bodies[o.body].position]
            ELSE S.meshes[h]]]

\* an update that copies the wrong way: from the mesh to the body
updateReversed(S) ==
    [S EXCEPT !.bodies =
        [b \in DOMAIN S.bodies |->
            IF \E i \in 1..Len(S.objects) : S.objects[i].body = b
            THEN LET o == S.objects[CHOOSE i \in 1..Len(S.objects) : S.objects[i].body = b]
                 IN [S.bodies[b] EXCEPT !.position = S.meshes[o.mesh].position,
                                        !.quaternion = S.meshes[o.mesh].quaternion]
            ELSE S.bodies[b]]]

update(S) == syncEach(S, S.objects)

\* ObjectManager.getCount
getCount(S) == Len(S.objects)

\* The clearance spawnAtPosition adds to the anchor's y.
Clearance == 2

\* a spawnAtPosition that forgets the clearance
spawnAtPositionNoLift(S, type, position, size) ==
    createObject(S, type, position, size)

\* ObjectManager.spawnAtPosition, size being its random draw
spawnAtPosition(S, type, position, size) ==
    createObject(S, type, <<position[1], position[2] + Clearance, position[3]>>, size)

\* ObjectManager.spawnRandom, position and size being its random draws
spawnRandom(S, type, position, size) == createObject(S, type, position, size)

(***************************************************************************)
(* PhysicsEngine: the setters the driver's reset calls.                    *)
(***************************************************************************)
\* the engine's own fields, as one record
Engine ==
    [settings |-> settings, worldGravity |-> worldGravity,
     contactMaterial |-> contactMaterial, isPaused |-> enginePaused]

setGravity(E, x, y, z) ==
    [E EXCEPT !.settings.gravity = <<x, y, z>>, !.worldGravity = <<x, y, z>>]

\* an updateMaterialProperties that takes its two arguments for one another
updateMaterialPropertiesSwapped(E, restitution, friction) ==
    [E EXCEPT !.settings.restitution = friction,
              !.settings.friction = restitution,
              !.contactMaterial.restitution = friction,
              !.contactMaterial.friction = restitution]

updateMaterialProperties(E, restitution, friction) ==
    [E EXCEPT !.settings.restitution = restitution,
              !.settings.friction = friction,
              !.contactMaterial.restitution = restitution,
              !.contactMaterial.friction = friction]

\* a setPaused that leaves the flag as it is
setPausedIgnored(E, paused) == E

setPaused(E, paused) == [E EXCEPT !.isPaused = paused]

EngineBecomes(E) ==
    /\ settings' = E.settings
    /\ worldGravity' = E.worldGravity
    /\ contactMaterial' = E.contactMaterial
    /\ enginePaused' = E.isPaused

(***************************************************************************)
(* The initial state: the engine, the renderer and the registry as their   *)
(* constructors leave them, once init of the driver has returned: its      *)
(* call of animate has run a first frame and requested the next one, and   *)
(* the timeouts of spawnInitialObjects are pending.                        *)
(***************************************************************************)
\* The range inputs as the page shows them at first: the documented defaults.
InitialSliders ==
    [gravityY |-> DefaultGravityY, restitution |-> DefaultRestitution,
     friction |-> DefaultFriction]

\* spawnInitialObjects: the kinds, in the order of their delays
initialObjects == <<"sphere", "box", "cylinder", "cone", "torus">>

\* ref: the place in refs of the object passed or returned, 0 when there is none
Call(op, kind, ref) == [op |-> op, kind |-> kind, ref |-> ref]

Init ==
    /\ objects = <<>>
    /\ objectId = 0
    /\ refs = <<>>
    /\ sceneChildren = [i \in 1..SceneStatics |-> i]
    /\ worldBodies = <<GroundBody>>
    /\ meshes = [h \in {} |-> 0]
    /\ bodies = (GroundBody :> [mass |-> 0, position |-> Origin,
                                quaternion |-> GroundQuat,
                                shape |-> [class |-> "Plane"]])
    /\ settings = [gravity |-> <<0, DefaultGravityY, 0>>,
                   restitution |-> DefaultRestitution,
                   friction |-> DefaultFriction,
                   defaultMass |-> DefaultMass]
    /\ worldGravity = <<0, DefaultGravityY, 0>>
    /\ contactMaterial = [friction |-> DefaultFriction, restitution |-> DefaultRestitution]
    /\ enginePaused = FALSE
    /\ isPaused = FALSE
    /\ lastCall = Call("init", NoKind, 0)
    /\ sliders = InitialSliders
    /\ inited = TRUE
    /\ initTimers = 0
    /\ spawnTimers = <<initialObjects>>
    /\ hidden = FALSE
    /\ animationId = 1
    /\ pendingFrames = {1}
    /\ rafCount = 1
    /\ running = <<>>
    /\ pc = "idle"
    /\ cont = "init"
    /\ frameLog = <<"step", "sync", "render">>
    /\ now = 0
    /\ lastTime = 0
    /\ deltaTime = 0

\* The variables take the fields of S.
Becomes(S) ==
    /\ objects' = S.objects
    /\ objectId' = S.objectId
    /\ sceneChildren' = S.sceneChildren
    /\ worldBodies' = S.worldBodies
    /\ meshes' = S.meshes
    /\ bodies' = S.bodies

(***************************************************************************)
(* The operations, one action each.                                        *)
(***************************************************************************)
\* a caller calls createObject(type, position, size), type among types
CreateObjectOf(types) ==
    \E type \in types, position \in SpawnPositions :
        LET r == createObject(State, type, position, DefaultSize)
        IN /\ type \in Kinds => objectId < MaxSpawns
           /\ Becomes(r.state)
           /\ refs' = IF r.ret = Null THEN refs ELSE Append(refs, r.ret)
           /\ lastCall' = Call("createObject", type,
                               IF r.ret = Null THEN 0 ELSE Len(refs) + 1)
           /\ UNCHANGED <<settings, worldGravity, contactMaterial, enginePaused, isPaused>>
           /\ UNCHANGED <<sliders, loopVars>>

CreateObject == CreateObjectOf(Kinds \cup BadKinds)

\* a caller calls removeObject(obj) with a reference it holds
RemoveObject ==
    \E i \in 1..Len(refs) :
        /\ meshes[refs[i].mesh].geometryDisposed < MaxDispose
        /\ Becomes(removeObject(State, refs[i]))
        /\ lastCall' = Call("removeObject", NoKind, i)
        /\ UNCHANGED <<refs, settings, worldGravity, contactMaterial, enginePaused, isPaused>>
        /\ UNCHANGED <<sliders, loopVars>>

\* the clear button: objectManager.clearAll()
ClearAll ==
    /\ Becomes(clearAll(State))
    /\ lastCall' = Call("clearAll", NoKind, 0)
    /\ UNCHANGED <<refs, settings, worldGravity, contactMaterial, enginePaused, isPaused>>
    /\ UNCHANGED <<sliders, loopVars>>

\* objectManager.update()
Update ==
    /\ Becomes(update(State))
    /\ lastCall' = Call("update", NoKind, 0)
    /\ UNCHANGED <<refs, settings, worldGravity, contactMaterial, enginePaused, isPaused>>
    /\ UNCHANGED <<sliders, loopVars>>

\* PhysicsEngine.update(deltaTime): unless paused, the world steps, and each
\* dynamic body of the world stays where it is or is moved and turned.
EngineUpdate ==
    /\ ~enginePaused
    /\ \E moved \in SUBSET {b \in Range(worldBodies) : bodies[b].mass > 0} :
          bodies' = [b \in DOMAIN bodies |->
                        IF b \in moved
                        THEN [bodies[b] EXCEPT !.position = SteppedPosition,
                                               !.quaternion = SteppedQuat]
                        ELSE bodies[b]]
    /\ lastCall' = Call("step", NoKind, 0)
    /\ UNCHANGED <<objects, objectId, refs, sceneChildren, worldBodies, meshes,
                   settings, worldGravity, contactMaterial, enginePaused, isPaused>>
    /\ UNCHANGED <<sliders, loopVars>>

\* a resetSimulation that restores the inputs and the gravity and leaves the
\* material properties of the engine as they are
ResetSimulationKeepsMaterial ==
    /\ Becomes(clearAll(State))
    /\ LET gravitySet == setGravity(Engine, 0, DefaultGravityY, 0)
       IN EngineBecomes(IF isPaused THEN setPaused(gravitySet, FALSE) ELSE gravitySet)
    /\ sliders' = [gravityY |-> DefaultGravityY, restitution |-> DefaultRestitution,
                   friction |-> DefaultFriction]
    /\ isPaused' = FALSE
    /\ lastCall' = Call("reset", NoKind, 0)
    /\ UNCHANGED <<refs, loopVars>>

\* the reset button: resetSimulation().  The texts it displays and the camera
\* it also resets are not part of this model.
ResetSimulation ==
    /\ Becomes(clearAll(State))
    /\ LET gravitySet == setGravity(Engine, 0, DefaultGravityY, 0)
           materialSet == updateMaterialProperties(gravitySet, DefaultRestitution,
                                                   DefaultFriction)
       IN EngineBecomes(IF isPaused THEN setPaused(materialSet, FALSE) ELSE materialSet)
    /\ sliders' = [gravityY |-> DefaultGravityY, restitution |-> DefaultRestitution,
                   friction |-> DefaultFriction]
    /\ isPaused' = FALSE
    /\ lastCall' = Call("reset", NoKind, 0)
    /\ UNCHANGED <<refs, loopVars>>

(***************************************************************************)
(* Spec: the life cycle of the tracked objects, under every kind.          *)
(***************************************************************************)
Next ==
    \/ CreateObject
    \/ RemoveObject
    \/ ClearAll
    \/ ResetSimulation

Spec == Init /\ [][Next]_vars

(***************************************************************************)
(* SpecSync: the life cycle under the kinds of SyncKinds, with the world's *)
(* steps and the registry's sync.                                          *)
(***************************************************************************)
SyncCreateObject == CreateObjectOf(SyncKinds \cup BadKinds)

SyncNext ==
    \/ SyncCreateObject
    \/ RemoveObject
    \/ ClearAll
    \/ EngineUpdate
    \/ Update

SpecSync == Init /\ [][SyncNext]_vars

(***************************************************************************)
(* The properties.                                                         *)
(***************************************************************************)
\* the object the last call was given or returned
CallObject(call) == refs[call.ref]

Tracked(obj) == \E i \in 1..Len(objects) : objects[i] = obj

\* C1: for every supported kind, createObject makes getCount() one more,
\* returns the object it created, of the kind asked for, and that object is
\* the last entry of the collection, the entries before it being as they were.
C1_SpawnAppendsOne ==
    [][(lastCall'.op = "createObject" /\ lastCall'.kind \in Kinds) =>
          /\ Len(objects') = Len(objects) + 1
          /\ lastCall'.ref \in 1..Len(refs')
          /\ refs'[lastCall'.ref].type = lastCall'.kind
          /\ objects'[Len(objects')] = refs'[lastCall'.ref]
          /\ SubSeq(objects', 1, Len(objects)) = objects]_vars

\* C1 witness: a torus was spawned into a registry that already tracked an object.
C1_Witness ==
    /\ lastCall.op = "createObject"
    /\ lastCall.kind = "torus"
    /\ Len(objects) = 2
    /\ objects[2] = CallObject(lastCall)

\* C2: the ids spawn has issued increase strictly in the order of issue, the
\* objects since removed or cleared included, and no two tracked objects have
\* the same id.
C2_IdsNeverReused ==
    /\ \A i, j \in 1..Len(refs) : i < j => refs[i].id < refs[j].id
    /\ \A i, j \in 1..Len(objects) : i # j => objects[i].id # objects[j].id

\* C2 witness: an object spawned after the first one was removed or cleared.
C2_Witness ==
    /\ lastCall.op = "createObject"
    /\ Len(refs) = 2
    /\ ~Tracked(refs[1])
    /\ Tracked(refs[2])
    /\ refs[2].id > refs[1].id

\* C3: createObject with a kind outside the closed set returns no object and
\* leaves the collection, the id counter, the scene's children, the world's
\* bodies and every handle as they were.
C3_UnknownKindRejected ==
    [][(lastCall'.op = "createObject" /\ lastCall'.kind \notin Kinds) =>
          /\ lastCall'.ref = 0
          /\ refs' = refs
          /\ UNCHANGED <<objects, objectId, sceneChildren, worldBodies, meshes, bodies>>]_vars

\* C3 witness: an unknown kind was asked of a registry that tracks an object.
C3_Witness ==
    /\ lastCall.op = "createObject"
    /\ lastCall.kind \in BadKinds
    /\ lastCall.ref = 0
    /\ Len(objects) = 1

\* C4: removeObject makes getCount() one less when the object is tracked, and
\* then the object is tracked no more; it leaves the collection as it was when
\* the object is not tracked, so a second removeObject of the same object
\* changes the count no further.
C4_RemoveCountsOnce ==
    [][lastCall'.op = "removeObject" =>
          LET obj == refs[lastCall'.ref]
          IN IF Tracked(obj)
             THEN /\ Len(objects') = Len(objects) - 1
                  /\ \A i \in 1..Len(objects') : objects'[i] # obj
             ELSE objects' = objects]_vars

\* C4 witness: the same object was removed a second time while another object
\* is tracked.
C4_Witness ==
    /\ lastCall.op = "removeObject"
    /\ ~Tracked(CallObject(lastCall))
    /\ meshes[CallObject(lastCall).mesh].geometryDisposed = 2
    /\ Len(objects) = 1

\* C5: removeObject of an object that is not tracked does nothing: no detach
\* from the scene, no dispose of the geometry or the material, no body taken
\* out of the world, so the scene, the world, the release state of the
\* handles and the registry stay as they were.
C5_UntrackedRemoveIsNoOp ==
    [][(lastCall'.op = "removeObject" /\ ~Tracked(refs[lastCall'.ref])) =>
          UNCHANGED <<objects, objectId, sceneChildren, worldBodies, meshes, bodies>>]_vars

\* C6: after clearAll, whatever was tracked before, getCount() is 0 and no
\* body of mass > 0 is in the world.
C6_ClearAllEmpties ==
    lastCall.op = "clearAll" =>
        /\ getCount(State) = 0
        /\ \A i \in 1..Len(worldBodies) : ~(bodies[worldBodies[i]].mass > 0)

\* C6 witness: clearAll has emptied a registry in which two objects had been
\* spawned, each released once.
C6_Witness ==
    /\ lastCall.op = "clearAll"
    /\ Len(refs) = 2
    /\ \A i \in 1..2 : meshes[refs[i].mesh].geometryDisposed = 1
    /\ objects = <<>>

\* C7: each tracked object holds one mesh and one body, both constructed for
\* it (neither is one of the scene's own children or the ground body), and no
\* mesh and no body is held by two tracked objects.
C7_Pairing ==
    /\ \A i \in 1..Len(objects) :
          /\ objects[i].mesh \in DOMAIN meshes
          /\ objects[i].body \in DOMAIN bodies
          /\ objects[i].mesh \notin 1..SceneStatics
          /\ objects[i].body # GroundBody
    /\ \A i, j \in 1..Len(objects) :
          i # j => /\ objects[i].mesh # objects[j].mesh
                   /\ objects[i].body # objects[j].body

\* C7 witness: two objects are tracked, the second just spawned, each with a
\* mesh of its own.
C7_Witness ==
    /\ Len(objects) = 2
    /\ Len(refs) = 2
    /\ objects[1].mesh # objects[2].mesh
    /\ lastCall.op = "createObject"

\* C8: for every object spawned, its mesh is in the scene exactly when its
\* body is in the world, exactly when the object is tracked; and the bodies of
\* mass > 0 in the world are exactly the bodies of the tracked objects.
C8_NoOrphans ==
    /\ \A i \in 1..Len(refs) :
          /\ (refs[i].mesh \in Range(sceneChildren)) <=> Tracked(refs[i])
          /\ (refs[i].body \in Range(worldBodies)) <=> Tracked(refs[i])
    /\ {b \in Range(worldBodies) : bodies[b].mass > 0}
          = {objects[i].body : i \in 1..Len(objects)}

\* C8 witness: one object was removed and the other one is still tracked,
\* with its mesh in the scene and its body in the world.
C8_Witness ==
    /\ lastCall.op = "removeObject"
    /\ Len(refs) = 2
    /\ Len(objects) = 1
    /\ objects[1].mesh \in Range(sceneChildren)
    /\ objects[1].body \in Range(worldBodies)
    /\ CallObject(lastCall).body \notin Range(worldBodies)

\* C9: after update, the position and the quaternion of every tracked
\* object's mesh are those its body had when update was called.
C9_SyncCopiesTransform ==
    [][lastCall'.op = "update" =>
          \A i \in 1..Len(objects') :
              /\ meshes'[objects'[i].mesh].position = bodies[objects'[i].body].position
              /\ meshes'[objects'[i].mesh].quaternion = bodies[objects'[i].body].quaternion]_vars

\* C9 witness: update has given a tracked mesh the position and the
\* quaternion a world step had given its body.
C9_Witness ==
    /\ lastCall.op = "update"
    /\ \E i \in 1..Len(objects) :
          /\ bodies[objects[i].body].position = SteppedPosition
          /\ meshes[objects[i].mesh].position = SteppedPosition
          /\ meshes[objects[i].mesh].quaternion = SteppedQuat

\* C10: update constructs and destroys no handle and writes nothing but the
\* position and the quaternion of meshes: the collection, the id counter, the
\* scene's children, the world's bodies and every field of every body are as
\* they were, and so are the geometry and the release state of every mesh.
C10_SyncWritesOnlyMeshTransforms ==
    [][lastCall'.op = "update" =>
          /\ UNCHANGED <<objects, objectId, sceneChildren, worldBodies, bodies>>
          /\ DOMAIN meshes' = DOMAIN meshes
          /\ \A h \in DOMAIN meshes :
                meshes'[h] = [meshes[h] EXCEPT !.position = meshes'[h].position,
                                               !.quaternion = meshes'[h].quaternion]]_vars

\* C10 witness: update ran with one object tracked, its body moved by a world
\* step, and another object already removed.
C10_Witness ==
    /\ lastCall.op = "update"
    /\ Len(refs) = 2
    /\ Len(objects) = 1
    /\ bodies[objects[1].body].position = SteppedPosition
    /\ meshes[objects[1].mesh].position = SteppedPosition

(***************************************************************************)
(* SpecSpawn: the two spawning wrappers, with their random draws, and the  *)
(* clear button.                                                           *)
(***************************************************************************)
\* no handler runs: the page is initialised and no animate call is under way
Ready == inited /\ pc = "idle" /\ running = <<>>

SpawnCall(op, kind, ref, size, position) ==
    [op |-> op, kind |-> kind, ref |-> ref, size |-> size, position |-> position]

\* objectManager.spawnRandom(type)
SpawnRandom ==
    \E type \in Kinds \cup BadKinds, position \in RandomPositions, size \in RandomSizes :
        LET r == spawnRandom(State, type, position, size)
        IN /\ Ready
           /\ type \in Kinds => objectId < MaxSpawns
           /\ Becomes(r.state)
           /\ refs' = IF r.ret = Null THEN refs ELSE Append(refs, r.ret)
           /\ lastCall' = SpawnCall("spawnRandom", type,
                                    IF r.ret = Null THEN 0 ELSE Len(refs) + 1,
                                    size, position)
           /\ UNCHANGED <<settings, worldGravity, contactMaterial, enginePaused, isPaused>>
           /\ UNCHANGED <<sliders, loopVars>>

\* a click on the ground plane: objectManager.spawnAtPosition(type, position)
SpawnAtPosition ==
    \E type \in Kinds \cup BadKinds, position \in AnchorPositions, size \in AnchorSizes :
        LET r == spawnAtPosition(State, type, position, size)
        IN /\ Ready
           /\ type \in Kinds => objectId < MaxSpawns
           /\ Becomes(r.state)
           /\ refs' = IF r.ret = Null THEN refs ELSE Append(refs, r.ret)
           /\ lastCall' = SpawnCall("spawnAtPosition", type,
                                    IF r.ret = Null THEN 0 ELSE Len(refs) + 1,
                                    size, position)
           /\ UNCHANGED <<settings, worldGravity, contactMaterial, enginePaused, isPaused>>
           /\ UNCHANGED <<sliders, loopVars>>

SpawnNext ==
    \/ SpawnRandom
    \/ SpawnAtPosition
    \/ ClearAll

SpecSpawn == Init /\ [][SpawnNext]_vars

\* The visible dimensions of a geometry and the dimensions of a CANNON shape.
\* A torus of ring radius r and tube radius t reaches r + t from its centre.
BoxEdges(geometry) == {geometry.width, geometry.height, geometry.depth}
TorusOuterRadius(geometry) == geometry.radius + geometry.tube
ShapeEdges(shape) == {2 * shape.halfExtents[i] : i \in 1..3}

\* The four kinds that have a counterpart in the engine: the geometry and
\* the shape built for size have the same radius and height.
SameDimensions(type, size, geometry, shape) ==
    CASE type = "box" ->
            /\ BoxEdges(geometry) = {size}
            /\ ShapeEdges(shape) = {size}
      [] type = "sphere" ->
            /\ 2 * geometry.radius = size
            /\ 2 * shape.radius = size
      [] type = "cylinder" ->
            /\ 2 * geometry.radiusTop = size /\ 2 * geometry.radiusBottom = size
            /\ geometry.height = size
            /\ 2 * shape.radiusTop = size /\ 2 * shape.radiusBottom = size
            /\ shape.height = size
      [] type = "cone" ->
            /\ 2 * geometry.radius = size /\ geometry.height = size
            /\ 2 * shape.radiusBottom = size /\ shape.height = size
      [] OTHER -> TRUE

LastSpawned == lastCall.op \in {"spawnRandom", "spawnAtPosition"} /\ lastCall.ref # 0

\* C11: for every supported kind and every size s, the geometry of the mesh
\* and the shape of the body have the same radius and height (box edge s;
\* sphere radius s/2; cylinder radius s/2, height s; cone base radius s/2,
\* height s), and the visible extent of a torus coincides with its collision
\* sphere of radius s/2.
C11_DimensionsCoincide ==
    LastSpawned =>
        LET obj == CallObject(lastCall)
            geometry == meshes[obj.mesh].geometry
            shape == bodies[obj.body].shape
        IN /\ SameDimensions(obj.type, lastCall.size, geometry, shape)
           /\ obj.type = "torus" =>
                 /\ 2 * shape.radius = lastCall.size
                 /\ TorusOuterRadius(geometry) = shape.radius

\* C16: spawnAtPosition with a supported kind and anchor (x, y, z) creates
\* exactly one tracked object, whose body is placed in the world at
\* (x, y + 2, z); with an unsupported kind it returns nothing and changes
\* nothing.
C16_SpawnAboveAnchor ==
    [][lastCall'.op = "spawnAtPosition" =>
         IF lastCall'.kind \in Kinds
         THEN LET obj == refs'[lastCall'.ref]
                  anchor == lastCall'.position
              IN /\ objects' = Append(objects, obj)
                 /\ \A i \in 1..Len(objects) : objects[i].id # obj.id
                 /\ obj.type = lastCall'.kind
                 /\ obj.body \in Range(worldBodies')
                 /\ obj.body \notin Range(worldBodies)
                 /\ Len(worldBodies') = Len(worldBodies) + 1
                 /\ bodies'[obj.body].position =
                        <<anchor[1], anchor[2] + 2, anchor[3]>>
         ELSE /\ lastCall'.ref = 0
              /\ UNCHANGED <<objects, objectId, refs, sceneChildren,
                             worldBodies, meshes, bodies>>]_vars

\* C16 witness: a second object, spawned above the anchor (4, 0, -3), at
\* (4, 2, -3).
C16_Witness ==
    /\ lastCall.op = "spawnAtPosition"
    /\ lastCall.ref # 0
    /\ lastCall.position = <<4, 0, -3>>
    /\ Len(objects) = 2
    /\ bodies[CallObject(lastCall).body].position = <<4, 2, -3>>

TrackedMesh(h) == \E i \in 1..Len(objects) : objects[i].mesh = h
TrackedBody(b) == \E i \in 1..Len(objects) : objects[i].body = b

\* C17: clearAll does to the registry what one removeObject on each object
\* tracked at the call does: every tracked object's geometry and material are
\* disposed exactly once more, its mesh leaves the scene and its body the
\* world, nothing tracked is left over, and what belonged to no tracked
\* object is not disposed and stays where it was.
C17_ClearAllRemovesEachOnce ==
    [][lastCall'.op = "clearAll" =>
         /\ objects' = <<>>
         /\ DOMAIN meshes' = DOMAIN meshes
         /\ \A h \in DOMAIN meshes :
               LET once == IF TrackedMesh(h) THEN 1 ELSE 0
               IN /\ meshes'[h].geometryDisposed = meshes[h].geometryDisposed + once
                  /\ meshes'[h].materialDisposed = meshes[h].materialDisposed + once
         /\ sceneChildren' = SelectSeq(sceneChildren, LAMBDA h : ~TrackedMesh(h))
         /\ worldBodies' = SelectSeq(worldBodies, LAMBDA b : ~TrackedBody(b))
         /\ objectId' = objectId]_vars

\* C17 witness: clearAll has run over a registry of one tracked object, now
\* disposed once, beside an object removed twice before and not touched again.
C17_Witness ==
    /\ lastCall.op = "clearAll"
    /\ Len(refs) = 2
    /\ \E i, j \in 1..2 :
          /\ meshes[refs[i].mesh].geometryDisposed = 1
          /\ meshes[refs[j].mesh].geometryDisposed = 2
    /\ objects = <<>>

(***************************************************************************)
(* SpecBodies: the operations that add bodies to the world or take them    *)
(* out of it, the engine's own clearAllBodies included.                    *)
(***************************************************************************)
\* physicsEngine.clearAllBodies()
ClearAllBodies ==
    /\ Becomes(clearAllBodies(State))
    /\ lastCall' = Call("clearAllBodies", NoKind, 0)
    /\ UNCHANGED <<refs, settings, worldGravity, contactMaterial, enginePaused, isPaused>>
    /\ UNCHANGED <<sliders, loopVars>>

BodiesNext ==
    \/ SyncCreateObject
    \/ RemoveObject
    \/ ClearAll
    \/ ClearAllBodies
    \/ ResetSimulation

SpecBodies == Init /\ [][BodiesNext]_vars

\* C18: in every reachable state the world holds the ground body, exactly
\* once, and the ground body is static (its mass is 0).
C18_GroundStays ==
    /\ Cardinality({i \in 1..Len(worldBodies) : worldBodies[i] = GroundBody}) = 1
    /\ bodies[GroundBody].mass = 0
    /\ bodies[GroundBody].shape.class = "Plane"

\* C18 witness: clearAllBodies has taken two dynamic bodies out of the world,
\* their objects still tracked, and the ground is all the world holds.
C18_Witness ==
    /\ lastCall.op = "clearAllBodies"
    /\ Len(objects) = 2
    /\ worldBodies = <<GroundBody>>

(***************************************************************************)
(* SpecControls: the range inputs, the pause button and the reset button,  *)
(* over a registry of boxes.                                               *)
(***************************************************************************)
\* input on the gravity range
GravityInput ==
    \E value \in GravityValues :
        /\ Ready
        /\ sliders' = [sliders EXCEPT !.gravityY = value]
        /\ EngineBecomes(setGravity(Engine, 0, value, 0))
        /\ lastCall' = Call("setGravity", NoKind, 0)
        /\ UNCHANGED <<objects, objectId, refs, sceneChildren, worldBodies, meshes,
                       bodies, isPaused, loopVars>>

\* input on the restitution range: the friction is read from its own input
RestitutionInput ==
    \E value \in RestitutionValues :
        /\ Ready
        /\ sliders' = [sliders EXCEPT !.restitution = value]
        /\ EngineBecomes(updateMaterialProperties(Engine, value, sliders.friction))
        /\ lastCall' = Call("restitution", NoKind, 0)
        /\ UNCHANGED <<objects, objectId, refs, sceneChildren, worldBodies, meshes,
                       bodies, isPaused, loopVars>>

\* input on the friction range: the restitution is read from its own input
FrictionInput ==
    \E value \in FrictionValues :
        /\ Ready
        /\ sliders' = [sliders EXCEPT !.friction = value]
        /\ EngineBecomes(updateMaterialProperties(Engine, sliders.restitution, value))
        /\ lastCall' = Call("friction", NoKind, 0)
        /\ UNCHANGED <<objects, objectId, refs, sceneChildren, worldBodies, meshes,
                       bodies, isPaused, loopVars>>

\* click on the pause button
TogglePause ==
    /\ Ready
    /\ isPaused' = ~isPaused
    /\ EngineBecomes(setPaused(Engine, ~isPaused))
    /\ lastCall' = Call("togglePause", NoKind, 0)
    /\ UNCHANGED <<objects, objectId, refs, sceneChildren, worldBodies, meshes,
                   bodies, sliders, loopVars>>

ControlsCreateObject == CreateObjectOf({"box"})

ControlsNext ==
    \/ ControlsCreateObject
    \/ GravityInput
    \/ RestitutionInput
    \/ FrictionInput
    \/ TogglePause
    \/ ResetSimulation

SpecControls == Init /\ [][ControlsNext]_vars

\* C14: whatever the gravity, the restitution, the friction, the pause state
\* and the number of objects were, when resetSimulation has run the gravity
\* is (0, -9.8, 0), the restitution 0.30 and the friction 0.30, in the
\* engine's settings as in the world and its contact material, and
\* getCount() is 0.
C14_ResetRestoresDefaults ==
    lastCall.op = "reset" =>
        /\ settings.gravity = <<0, -98, 0>>
        /\ worldGravity = <<0, -98, 0>>
        /\ settings.restitution = 30
        /\ settings.friction = 30
        /\ contactMaterial.restitution = 30
        /\ contactMaterial.friction = 30
        /\ getCount(State) = 0

\* C14 witness: resetSimulation has run, and both objects ever spawned were
\* cleared by it or by an earlier reset.
C14_Witness ==
    /\ lastCall.op = "reset"
    /\ objectId = 2
    /\ \A i \in 1..2 : meshes[refs[i].mesh].geometryDisposed = 1
    /\ ~enginePaused

(***************************************************************************)
(* The frame loop.  A call of animate is taken in four steps, pc telling   *)
(* where it stands: the request of the next frame and the clock, then      *)
(* physicsEngine.update, objectManager.update and renderer.render.  No     *)
(* handler runs while a call of animate is under way, and the callbacks    *)
(* pending at a display tick all run in that tick, those requested         *)
(* meanwhile in the next.  frameLog is the record of what the call of      *)
(* animate under way, or the last one, has done.                           *)
(***************************************************************************)
\* animate with the render call ahead of objectManager.update
animateNextRenderFirst(at) ==
    CASE at = "physics" -> "render"
      [] at = "render" -> "sync"
      [] OTHER -> "idle"

\* the order of the statements of animate
animateNext(at) ==
    CASE at = "physics" -> "sync"
      [] at = "sync" -> "render"
      [] OTHER -> "idle"

\* animate(), up to its call of physicsEngine.update: last is lastTime as the
\* caller left it
AnimateEnter(caller, last) ==
    /\ rafCount' = rafCount + 1
    /\ animationId' = rafCount + 1
    /\ pendingFrames' = pendingFrames \cup {rafCount + 1}
    /\ deltaTime' = now - last
    /\ lastTime' = now
    /\ frameLog' = <<>>
    /\ pc' = "physics"
    /\ cont' = caller

\* the callbacks of a tick run oldest first
SortedSeq(ids) ==
    CHOOSE q \in [1..Cardinality(ids) -> ids] :
        \A i, j \in 1..Cardinality(ids) : i < j => q[i] < q[j]

\* a display tick of the visible document: the pending callbacks are taken.
\* No tick is delivered to a hidden document.
Tick ==
    /\ pc = "idle"
    /\ running = <<>>
    /\ ~hidden
    /\ pendingFrames # {}
    /\ rafCount + Cardinality(pendingFrames) <= MaxFrames
    /\ running' = SortedSeq(pendingFrames)
    /\ pendingFrames' = {}
    /\ UNCHANGED <<objects, objectId, refs, sceneChildren, worldBodies, meshes, bodies,
                   settings, worldGravity, contactMaterial, enginePaused, isPaused,
                   lastCall, sliders>>
    /\ UNCHANGED <<inited, initTimers, spawnTimers, hidden, animationId, rafCount,
                   pc, cont, frameLog, now, lastTime, deltaTime>>

\* the next callback of the tick: animate(timestamp)
RunCallback ==
    /\ pc = "idle"
    /\ running # <<>>
    /\ running' = Tail(running)
    /\ AnimateEnter("tick", lastTime)
    /\ UNCHANGED <<objects, objectId, refs, sceneChildren, worldBodies, meshes, bodies,
                   settings, worldGravity, contactMaterial, enginePaused, isPaused,
                   lastCall, sliders>>
    /\ UNCHANGED <<inited, initTimers, spawnTimers, hidden, now>>

\* an AnimatePhysics whose engine steps the world whether paused or not
AnimatePhysicsIgnoresPause ==
    /\ pc = "physics"
    /\ IF ~inited
       THEN /\ pc' = "idle"
            /\ frameLog' = <<"TypeError">>
            /\ UNCHANGED <<bodies, lastCall>>
       ELSE /\ \E moved \in SUBSET {b \in Range(worldBodies) : bodies[b].mass > 0} :
                  bodies' = [b \in DOMAIN bodies |->
                                IF b \in moved
                                THEN [bodies[b] EXCEPT !.position = SteppedPosition,
                                                       !.quaternion = SteppedQuat]
                                ELSE bodies[b]]
            /\ frameLog' = Append(frameLog, IF enginePaused THEN "paused" ELSE "step")
            /\ lastCall' = Call("step", NoKind, 0)
            /\ pc' = animateNext("physics")
    /\ UNCHANGED <<objects, objectId, refs, sceneChildren, worldBodies, meshes,
                   settings, worldGravity, contactMaterial, enginePaused, isPaused,
                   sliders>>
    /\ UNCHANGED <<inited, initTimers, spawnTimers, hidden, animationId, pendingFrames,
                   rafCount, running, cont, now, lastTime, deltaTime>>

\* animate: physicsEngine.update(deltaTime).  Before init physicsEngine is
\* undefined, the call throws a TypeError and this call of animate ends.
\* A paused engine returns at once; otherwise the world steps, and each
\* dynamic body of the world stays where it is or is moved and turned.
AnimatePhysics ==
    /\ pc = "physics"
    /\ IF ~inited
       THEN /\ pc' = "idle"
            /\ frameLog' = <<"TypeError">>
            /\ UNCHANGED <<bodies, lastCall>>
       ELSE IF enginePaused
       THEN /\ frameLog' = Append(frameLog, "paused")
            /\ pc' = animateNext("physics")
            /\ UNCHANGED <<bodies, lastCall>>
       ELSE /\ \E moved \in SUBSET {b \in Range(worldBodies) : bodies[b].mass > 0} :
                  bodies' = [b \in DOMAIN bodies |->
                                IF b \in moved
                                THEN [bodies[b] EXCEPT !.position = SteppedPosition,
                                                       !.quaternion = SteppedQuat]
                                ELSE bodies[b]]
            /\ frameLog' = Append(frameLog, "step")
            /\ lastCall' = Call("step", NoKind, 0)
            /\ pc' = animateNext("physics")
    /\ UNCHANGED <<objects, objectId, refs, sceneChildren, worldBodies, meshes,
                   settings, worldGravity, contactMaterial, enginePaused, isPaused,
                   sliders>>
    /\ UNCHANGED <<inited, initTimers, spawnTimers, hidden, animationId, pendingFrames,
                   rafCount, running, cont, now, lastTime, deltaTime>>

\* animate: objectManager.update()
AnimateSync ==
    /\ pc = "sync"
    /\ Becomes(update(State))
    /\ frameLog' = Append(frameLog, "sync")
    /\ lastCall' = Call("update", NoKind, 0)
    /\ pc' = animateNext("sync")
    /\ UNCHANGED <<refs, settings, worldGravity, contactMaterial, enginePaused,
                   isPaused, sliders>>
    /\ UNCHANGED <<inited, initTimers, spawnTimers, hidden, animationId, pendingFrames,
                   rafCount, running, cont, now, lastTime, deltaTime>>

\* animate: renderer.render() and updateStats(), which write nothing here
AnimateRender ==
    /\ pc = "render"
    /\ frameLog' = Append(frameLog, "render")
    /\ pc' = animateNext("render")
    /\ UNCHANGED <<objects, objectId, refs, sceneChildren, worldBodies, meshes, bodies,
                   settings, worldGravity, contactMaterial, enginePaused, isPaused,
                   lastCall, sliders>>
    /\ UNCHANGED <<inited, initTimers, spawnTimers, hidden, animationId, pendingFrames,
                   rafCount, running, cont, now, lastTime, deltaTime>>

\* a timeout of spawnInitialObjects fires: objectManager.spawnRandom(obj.type).
\* The timeouts of one call of spawnInitialObjects fire in the order of their
\* delays.
SpawnTimerFires ==
    \E k \in 1..Len(spawnTimers), position \in RandomPositions, size \in RandomSizes :
        /\ Ready
        /\ spawnTimers[k] # <<>>
        /\ objectId < MaxSpawns
        /\ LET type == Head(spawnTimers[k])
               r == spawnRandom(State, type, position, size)
           IN /\ Becomes(r.state)
              /\ refs' = Append(refs, r.ret)
              /\ lastCall' = SpawnCall("spawnRandom", type, Len(refs) + 1, size, position)
        /\ spawnTimers' = [spawnTimers EXCEPT ![k] = Tail(@)]
        /\ UNCHANGED <<settings, worldGravity, contactMaterial, enginePaused, isPaused,
                       sliders>>
        /\ UNCHANGED <<inited, initTimers, hidden, animationId, pendingFrames, rafCount,
                       running, pc, cont, frameLog, now, lastTime, deltaTime>>

(***************************************************************************)
(* SpecFrame: the frames of the running page, with the initial objects     *)
(* arriving and the pause button.                                          *)
(***************************************************************************)
FrameNext ==
    \/ Tick
    \/ RunCallback
    \/ AnimatePhysics
    \/ AnimateSync
    \/ AnimateRender
    \/ SpawnTimerFires
    \/ TogglePause

SpecFrame == Init /\ [][FrameNext]_vars

\* what a call of animate that is over has done
FrameDone(first) == <<first, "sync", "render">>

\* C12: in every frame the physics step is over before the registry's sync
\* starts and the sync is over before the render call, every render call
\* has exactly one sync before it, and the bodies are written only by the
\* physics step of a frame, the meshes of tracked objects only by its sync.
C12_FrameOrder ==
    /\ [](/\ \E first \in {"step", "paused"}, n \in 0..3 :
                frameLog = SubSeq(FrameDone(first), 1, n)
          /\ pc = "physics" => Len(frameLog) = 0
          /\ pc = "sync" => Len(frameLog) = 1
          /\ pc = "render" => Len(frameLog) = 2
          /\ pc = "idle" => Len(frameLog) = 3)
    /\ [][/\ (\E b \in DOMAIN bodies : bodies'[b] # bodies[b]) => pc = "physics"
          /\ (\E h \in DOMAIN meshes : meshes'[h] # meshes[h]) => pc = "sync"
          /\ pc = "render" => UNCHANGED <<meshes, bodies>>]_vars

\* C12 witness: the third frame is over, and the mesh of a tracked object
\* shows the transform the step of a frame gave its body.
C12_Witness ==
    /\ pc = "idle"
    /\ frameLog = <<"step", "sync", "render">>
    /\ rafCount = 4
    /\ \E i \in 1..Len(objects) :
          /\ bodies[objects[i].body].position = SteppedPosition
          /\ meshes[objects[i].mesh].position = SteppedPosition

\* C13: while the engine is paused no step of any kind changes a body, a
\* frame's physicsEngine.update returns without stepping the world, and the
\* frame still runs the sync and the render call; while it is not paused,
\* every frame steps the world.
C13_PausedFramesSkipStep ==
    /\ [][/\ enginePaused => \A b \in DOMAIN bodies : bodies'[b] = bodies[b]
          /\ pc = "physics" /\ enginePaused => frameLog' = <<"paused">>
          /\ pc = "physics" /\ ~enginePaused => frameLog' = <<"step">>]_vars
    /\ [](pc = "idle" /\ frameLog # <<>> /\ frameLog[1] = "paused"
            => frameLog = <<"paused", "sync", "render">>)

\* C13 witness: a paused frame is over, its sync and render done, after an
\* earlier frame stepped the world and moved a body.
C13_Witness ==
    /\ enginePaused
    /\ pc = "idle"
    /\ frameLog = <<"paused", "sync", "render">>
    /\ \E i \in 1..Len(objects) : bodies[objects[i].body].position = SteppedPosition

(***************************************************************************)
(* SpecLoop: the page from the moment its script has run: the start        *)
(* button and its delayed init, the visibilitychange handler, registered   *)
(* when the script runs, the display ticks and the frames.  The timeouts   *)
(* of spawnInitialObjects stay pending: the frames here run over an empty  *)
(* registry.                                                               *)
(***************************************************************************)
\* what the constructors called by init build
FreshState ==
    [objects |-> <<>>,
     objectId |-> 0,
     sceneChildren |-> [i \in 1..SceneStatics |-> i],
     worldBodies |-> <<GroundBody>>,
     meshes |-> [h \in {} |-> 0],
     bodies |-> (GroundBody :> [mass |-> 0, position |-> Origin,
                                quaternion |-> GroundQuat,
                                shape |-> [class |-> "Plane"]])]

FreshEngine ==
    [settings |-> [gravity |-> <<0, DefaultGravityY, 0>>,
                   restitution |-> DefaultRestitution,
                   friction |-> DefaultFriction,
                   defaultMass |-> DefaultMass],
     worldGravity |-> <<0, DefaultGravityY, 0>>,
     contactMaterial |-> [friction |-> DefaultFriction,
                          restitution |-> DefaultRestitution],
     isPaused |-> FALSE]

\* The script has run: physicsEngine, renderer and objectManager are
\* undefined (inited is FALSE, and the variables of their fields hold what
\* the constructors will build), animationId is undefined (0), no timeout
\* and no frame callback is pending.
Loaded ==
    /\ objects = FreshState.objects
    /\ objectId = FreshState.objectId
    /\ refs = <<>>
    /\ sceneChildren = FreshState.sceneChildren
    /\ worldBodies = FreshState.worldBodies
    /\ meshes = FreshState.meshes
    /\ bodies = FreshState.bodies
    /\ settings = FreshEngine.settings
    /\ worldGravity = FreshEngine.worldGravity
    /\ contactMaterial = FreshEngine.contactMaterial
    /\ enginePaused = FreshEngine.isPaused
    /\ isPaused = FALSE
    /\ lastCall = Call("load", NoKind, 0)
    /\ sliders = InitialSliders
    /\ inited = FALSE
    /\ initTimers = 0
    /\ spawnTimers = <<>>
    /\ hidden = FALSE
    /\ animationId = 0
    /\ pendingFrames = {}
    /\ rafCount = 0
    /\ running = <<>>
    /\ pc = "idle"
    /\ cont = "none"
    /\ frameLog = <<>>
    /\ now = 0
    /\ lastTime = 0
    /\ deltaTime = 0

\* no handler and no frame is under way
Quiet == pc = "idle" /\ running = <<>>

\* click on the start button: init is set to run 500 ms later
StartClick ==
    /\ Quiet
    /\ ~hidden
    /\ initTimers < MaxClicks
    /\ initTimers' = initTimers + 1
    /\ UNCHANGED <<objects, objectId, refs, sceneChildren, worldBodies, meshes, bodies,
                   settings, worldGravity, contactMaterial, enginePaused, isPaused,
                   lastCall, sliders>>
    /\ UNCHANGED <<inited, spawnTimers, hidden, animationId, pendingFrames, rafCount,
                   running, pc, cont, frameLog, now, lastTime, deltaTime>>

\* the timeout of a start click fires: init().  The engine, the renderer and
\* the registry are constructed anew, animate is called, and the timeouts of
\* spawnInitialObjects are set once animate has returned.
InitFires ==
    /\ Quiet
    /\ initTimers > 0
    /\ rafCount < MaxFrames
    /\ initTimers' = initTimers - 1
    /\ Becomes(FreshState)
    /\ EngineBecomes(FreshEngine)
    /\ refs' = <<>>
    /\ inited' = TRUE
    /\ spawnTimers' = Append(spawnTimers, initialObjects)
    /\ AnimateEnter("init", lastTime)
    /\ lastCall' = Call("init", NoKind, 0)
    /\ UNCHANGED <<isPaused, sliders, hidden, running, now>>

\* visibilitychange, the document now hidden: the callback whose id
\* animationId holds is cancelled, if animationId holds one
Hidden ==
    /\ Quiet
    /\ ~hidden
    /\ hidden' = TRUE
    /\ pendingFrames' = IF animationId # 0 THEN pendingFrames \ {animationId}
                                           ELSE pendingFrames
    /\ UNCHANGED <<objects, objectId, refs, sceneChildren, worldBodies, meshes, bodies,
                   settings, worldGravity, contactMaterial, enginePaused, isPaused,
                   lastCall, sliders>>
    /\ UNCHANGED <<inited, initTimers, spawnTimers, animationId, rafCount, running, pc,
                   cont, frameLog, now, lastTime, deltaTime>>

\* visibilitychange, the document now visible: lastTime is set to the clock
\* and animate is called
Visible ==
    /\ Quiet
    /\ hidden
    /\ rafCount < MaxFrames
    /\ hidden' = FALSE
    /\ AnimateEnter("visible", now)
    /\ UNCHANGED <<objects, objectId, refs, sceneChildren, worldBodies, meshes, bodies,
                   settings, worldGravity, contactMaterial, enginePaused, isPaused,
                   lastCall, sliders>>
    /\ UNCHANGED <<inited, initTimers, spawnTimers, running, now>>

\* the clock performance.now() advances
TimePasses ==
    /\ Quiet
    /\ now < MaxTime
    /\ now' = now + 1
    /\ UNCHANGED <<objects, objectId, refs, sceneChildren, worldBodies, meshes, bodies,
                   settings, worldGravity, contactMaterial, enginePaused, isPaused,
                   lastCall, sliders>>
    /\ UNCHANGED <<inited, initTimers, spawnTimers, hidden, animationId, pendingFrames,
                   rafCount, running, pc, cont, frameLog, lastTime, deltaTime>>

LoopNext ==
    \/ StartClick
    \/ InitFires
    \/ Hidden
    \/ Visible
    \/ TimePasses
    \/ Tick
    \/ RunCallback
    \/ AnimatePhysics
    \/ AnimateSync
    \/ AnimateRender

SpecLoop == Loaded /\ [][LoopNext]_vars

\* C20: no call of animate is under way while physicsEngine, renderer and
\* objectManager are undefined, and none has ended in the TypeError that
\* physicsEngine.update raises then.
C20_NoFrameBeforeInit ==
    /\ pc # "idle" => inited
    /\ frameLog # <<"TypeError">>

\* C19: at most one frame callback is pending at any time, and a display
\* tick runs at most one frame.
C19_OneCallbackPending ==
    /\ Cardinality(pendingFrames) <= 1
    /\ Len(running) <= 1

\* C15: while the document is hidden no frame is run; the call of animate
\* made when it becomes visible again has requested the next frame, and its
\* deltaTime is 0, whatever time passed while the document was hidden.
C15_SuspendResume ==
    /\ hidden => pc = "idle" /\ running = <<>>
    /\ cont = "visible" /\ pc # "idle" =>
          /\ animationId \in pendingFrames
          /\ deltaTime = 0
          /\ lastTime = now

\* C21: in every state reached from init by clicks on the pause button and
\* the reset button (and the inputs of the ranges and spawns between them),
\* the driver's isPaused equals the engine's isPaused; a click on the pause
\* button inverts both, so that two clicks in a row give back the pause
\* state they started from; and after a reset both are false.
C21_PauseFlagsAgree ==
    /\ [](isPaused = enginePaused)
    /\ [](lastCall.op = "reset" => ~isPaused /\ ~enginePaused)
    /\ [][lastCall'.op = "togglePause" =>
             /\ isPaused' = ~isPaused
             /\ enginePaused' = ~enginePaused]_vars

\* C21 witness: the simulation is paused by a click on the pause button that
\* came after a reset had cleared two objects.
C21_Witness ==
    /\ lastCall.op = "togglePause"
    /\ isPaused
    /\ enginePaused
    /\ objectId = 2
    /\ objects = <<>>

C23_SlidersMapOneToOne ==
    /\ [](/\ settings.restitution = contactMaterial.restitution
          /\ settings.friction = contactMaterial.friction)
    /\ [][/\ lastCall'.op = "restitution" =>
                /\ settings'.restitution = sliders'.restitution
                /\ contactMaterial'.restitution = sliders'.restitution
                /\ settings'.friction = settings.friction
                /\ contactMaterial'.friction = contactMaterial.friction
          /\ lastCall'.op = "friction" =>
                /\ settings'.friction = sliders'.friction
                /\ contactMaterial'.friction = sliders'.friction
                /\ settings'.restitution = settings.restitution
                /\ contactMaterial'.restitution = contactMaterial.restitution]_vars

\* C23 witness: the friction range was set to 0 after the restitution range
\* had been set to 0.90, and the engine holds both values.
C23_Witness ==
    /\ lastCall.op = "friction"
    /\ sliders.friction = 0
    /\ settings.friction = 0
    /\ settings.restitution = 90
    /\ contactMaterial = [friction |-> 0, restitution |-> 90]
====
